---- MODULE Spec2Model ----
(***************************************************************************)
(* Download stage of the safe-scan data crawler                            *)
(* (src/crawl_images_and_label.py): the Record Store is read line by line, *)
(* entries not in the Progress Ledger are batched and handed to a thread   *)
(* pool, and every successful result gets a label row and a ledger line.   *)
(*                                                                         *)
(* The disk (ledger file, label table, image directory) outlives a run;    *)
(* everything else is the memory of one process and is lost when the       *)
(* process ends.  The label table is written through a buffered file       *)
(* object, so it is modelled as its on-disk content plus the rows still    *)
(* held in the process's buffer.                                           *)
(***************************************************************************)
EXTENDS Integers, Sequences, FiniteSets, Bags, TLC

(* ---------------------------- bounds ---------------------------------- *)
\* largest total item count and page size of the crawl stage
MaxItems == 3
MaxPageSize == 2
\* longest Record Store (number of lines) that is explored
MaxStore == 2
\* number of download-stage runs over the same Record Store
MaxRuns == 2

(* ----------------------- program constants ---------------------------- *)
OUTPUT_DIR == "Images"
MAX_WORKERS == 5
CANCEROUS_TYPES == {"melanoma", "basal_cell_carcinoma"}
\* the source uses 100; the model scales the batch down so that a full
\* batch and a remainder both occur within MaxStore lines
batch_size == 2
max_retries == 3
initial_retry_delay == 2

(* --------------------------- the inputs ------------------------------- *)
\* An id is a string, modelled as its sequence of characters, so that
\* writing it to the ledger and reading it back (strip) is a real conversion.
IdA == <<"a">>
IdB == <<"b">>
IdPadded == <<" ", "a">>

\* A remote image_path is a directory part and a basename.
Entry(id, dir, base, dtype) ==
    [kind |-> "ok", id |-> id, image_path |-> <<dir, base>>, disease_type |-> dtype]

\* Lines of the Record Store.  kind "ok" is a well-formed entry; "bad" is a
\* line json.loads rejects (a trailing partial line included) or one without
\* an "id" key; "nofield" has an id but lacks image_path or disease_type.
\* The second entry is the first one fetched again after its disease_type
\* changed; the padded entry shares its basename with the first.
Records ==
    { Entry(IdA, "x", "f1.jpg", "melanoma"),
      Entry(IdA, "x", "f1.jpg", "nevus"),
      Entry(IdB, "x", "f2.jpg", "nevus"),
      Entry(IdPadded, "y", "f1.jpg", "nevus"),
      [kind |-> "bad", id |-> <<>>, image_path |-> <<>>, disease_type |-> ""],
      [kind |-> "nofield", id |-> IdB, image_path |-> <<>>, disease_type |-> "nevus"] }

Stores == UNION { [1..n -> Records] : n \in 0..MaxStore }

(* ------------------------- pure functions ----------------------------- *)
IsSpace(c) == c = " "

\* str.strip(): drop leading and trailing whitespace
RECURSIVE Strip(_)
Strip(s) ==
    IF s = <<>> THEN s
    ELSE IF IsSpace(Head(s)) THEN Strip(Tail(s))
    ELSE IF IsSpace(s[Len(s)]) THEN Strip(SubSeq(s, 1, Len(s) - 1))
    ELSE s

\* the ledger line written for an id: f"{entry_id}\n" (the newline is the
\* line separator of the sequence of lines)
LedgerLine(entry_id) == entry_id

\* faulty variant of get_processed_ids: the ledger file is never read
GetProcessedIdsNone(exists, lines) == {}

\* get_processed_ids
GetProcessedIds(exists, lines) ==
    IF ~exists THEN {} ELSE { Strip(lines[k]) : k \in 1..Len(lines) }

\* faulty variant of the skip test: no entry is ever skipped
AlreadyProcessedNever(item, ids) == FALSE

\* `if entry_id in processed_ids`
AlreadyProcessed(item, ids) == item.id \in ids

\* os.path.basename(item["image_path"])
Basename(image_path) == image_path[2]

\* os.path.join(OUTPUT_DIR, filename)
OutputPath(item) == <<OUTPUT_DIR, Basename(item.image_path)>>

\* "True" if disease_type in CANCEROUS_TYPES else "False"
Label(disease_type) == IF disease_type \in CANCEROUS_TYPES THEN "True" ELSE "False"

\* the header row of a new label table
Header == [path |-> <<"image_path">>, label |-> "label", id |-> <<>>]

\* the first batch item whose id is entry_id (the lookup loop of the
\* result-processing code); 0 when there is none
BatchLookup(b, entry_id) ==
    LET hits == { k \in 1..Len(b) : b[k].id = entry_id }
    IN  IF hits = {} THEN 0 ELSE CHOOSE k \in hits : \A j \in hits : k <= j

\* one task handed to the executor
NewTask(item, line) ==
    [ item |-> item, line |-> line, st |-> "queued", attempt |-> 0,
      retry_delay |-> initial_retry_delay, slept |-> <<>>, reqs |-> 0,
      result |-> "none", consumed |-> FALSE ]

\* download_image has returned: its locals are gone, the future holds the result
Returned(t, result) ==
    [ NewTask(t.item, t.line) EXCEPT !.st = "done", !.result = result ]

\* executor.submit for every item of the batch, in batch order
SubmitAll(b, lines) == [ k \in 1..Len(b) |-> NewTask(b[k], lines[k]) ]

(* ------------------------------ state --------------------------------- *)
VARIABLES
    store,          \* the Record Store: sequence of lines
    ledgerExists,   \* PROGRESS_FILE exists
    ledger,         \* lines of PROGRESS_FILE on disk
    csvExists,      \* LABEL_CSV exists
    csvDisk,        \* lines of LABEL_CSV on disk
    csvBuf,         \* lines written to csvfile, still in the process's buffer
    files,          \* basename -> "absent" | "incomplete" (zero-byte or truncated) | "full"
    pc,             \* position of the main thread
    phase,          \* "loop": a full batch inside the read loop; "tail": the remainder
    i,              \* next line of the store to read
    processed_ids,  \* the ledger as loaded at startup
    batch,          \* items of the current batch
    batchLines,     \* store line of each batch item (history)
    futures,        \* tasks of the current batch
    cur,            \* index in futures of the result being processed
    runs,           \* runs started so far
    outcome,        \* how the last run ended: "none" | "done" | "aborted" | "killed"
    hist,           \* history of the current run (see NewHist)
    crawl           \* the crawl stage (src/main.py): see CrawlIdle

vars == << crawl, store, ledgerExists, ledger, csvExists, csvDisk, csvBuf, files, pc,
           phase, i, processed_ids, batch, batchLines, futures, cur, runs,
           outcome, hist >>

disk == << ledgerExists, ledger, csvExists, csvDisk, files >>

Basenames == { "f1.jpg", "f2.jpg" }

\* History of one run; it records what happened and never steers an action.
\*   submitted: store lines handed to the executor, in order
\*   requested: store lines for which a network request was issued
\*   consumed:  store lines of the futures taken from as_completed, each as
\*              often as it was taken
\*   rows:      label rows passed to writerow
\*   rowLines:  for each of these rows, the store line of the task whose
\*              result it was written for
\*   marked:    ids passed to mark_as_processed
\*   failed:    ids of tasks that returned failure
\*   skipped:   store lines whose task found the destination file and returned success
\*   loaded:    the ledger as this run loaded it
\*   prevDone:  the previous run ran to completion
\*   prevClean: the previous run ran to completion and no task of it failed
NewHist(loaded, prevDone, prevClean) ==
    [ submitted |-> <<>>, consumed |-> EmptyBag, requested |-> {}, rows |-> <<>>,
      rowLines |-> <<>>,
      marked |-> <<>>,
      failed |-> {}, skipped |-> {}, loaded |-> loaded,
      prevDone |-> prevDone, prevClean |-> prevClean ]

(* ------------------- crawl stage: pure functions ---------------------- *)
\* src/main.py
TOTAL_ITEMS == 47663
PAGE_SIZE == 100

\* faulty variant of the page count: floor instead of ceiling division
TotalPagesFloor(total, size) == total \div size

\* total_pages = (TOTAL_ITEMS + PAGE_SIZE - 1) // PAGE_SIZE
TotalPages(total, size) == (total + size - 1) \div size

\* the k-th item of the remote catalog
Item(k) == Entry(<<k>>, "x", k, "nevus")

Min(a, b) == IF a <= b THEN a ELSE b

\* the `items` array the API returns for a page: the page's slice of the catalog
PageItems(page, total, size) ==
    [ k \in 1..(Min(page * size, total) - (page - 1) * size) |->
          Item((page - 1) * size + k) ]

\* json.dumps(item) + '\n' for every item of the page, in order; a line is
\* kept as the entry it encodes
PageLines(items) == [ k \in 1..Len(items) |-> items[k] ]

\* The crawl process.
\*   total, size: TOTAL_ITEMS and PAGE_SIZE of this configuration
\*   pc:      "idle" | "loop" (between pages) | "fetch" (inside fetch_page);
\*            "raised" marks the value fetch_page leaves by re-raising
\*   page:    page_num
\*   attempt, retry_delay: locals of fetch_page
\*   runs:    crawl runs started
\*   ended:   the last run left crawl_data normally
\*   history of the current run: reqs (requests of the current page), slept
\*   (waits of the current page), got (the pages received, with their items),
\*   log (one record per page that was left: requests, waits, outcome)
CrawlNew(total, size) ==
    [ total |-> total, size |-> size, pc |-> "idle", page |-> 0, attempt |-> 0,
      retry_delay |-> initial_retry_delay, runs |-> 0, ended |-> FALSE,
      reqs |-> 0, slept |-> <<>>, got |-> <<>>, log |-> <<>> ]

Init ==
    /\ crawl = CrawlNew(TOTAL_ITEMS, PAGE_SIZE)
    /\ store \in Stores
    /\ ledgerExists = FALSE
    /\ ledger = <<>>
    /\ csvExists = FALSE
    /\ csvDisk = <<>>
    /\ csvBuf = <<>>
    /\ files = [ b \in Basenames |-> "absent" ]
    /\ pc = "idle"
    /\ phase = "loop"
    /\ i = 1
    /\ processed_ids = {}
    /\ batch = <<>>
    /\ batchLines = <<>>
    /\ futures = <<>>
    /\ cur = 0
    /\ runs = 0
    /\ outcome = "none"
    /\ hist = NewHist({}, FALSE, FALSE)


(* ------------------------- shared helpers ----------------------------- *)
\* leaving the `with open(LABEL_CSV, ...)` block: the buffer is flushed
ClosedCsv == csvDisk \o csvBuf

\* the memory of the process is gone after the run
ProcessGone ==
    /\ pc' = "idle"
    /\ phase' = "loop"
    /\ i' = 1
    /\ processed_ids' = {}
    /\ batch' = <<>>
    /\ batchLines' = <<>>
    /\ futures' = <<>>
    /\ cur' = 0

Started(t) == t.st \in {"try", "writing"}

Unconsumed == { k \in 1..Len(futures) : ~futures[k].consumed }

\* faulty variant of the except branch: the delay is not doubled
OnFailureNoDoubling(t) ==
    IF t.attempt < max_retries - 1
    THEN [ t EXCEPT !.st = "try", !.attempt = t.attempt + 1,
                    !.slept = Append(t.slept, t.retry_delay) ]
    ELSE Returned(t, "fail")

\* the except branch of download_image: back off and retry, or give up after
\* the last attempt
OnFailure(t) ==
    IF t.attempt < max_retries - 1
    THEN [ t EXCEPT !.st = "try", !.attempt = t.attempt + 1,
                    !.slept = Append(t.slept, t.retry_delay),
                    !.retry_delay = t.retry_delay * 2 ]
    ELSE Returned(t, "fail")

NoteFailure(h, t) ==
    IF t.result = "fail" THEN [ h EXCEPT !.failed = @ \cup {t.item.id} ] ELSE h

(* ---------------------------- main thread ----------------------------- *)
\* faulty variant of opening the label table: always mode 'w'
OpenCsvTruncate(exists, content) == [ disk |-> <<>>, buf |-> <<Header>> ]

\* open(LABEL_CSV, 'a' if csv_exists else 'w') and the header of a new file:
\* the content on disk after the open, and the buffer of the writer
OpenCsv(exists, content) ==
    [ disk |-> IF exists THEN content ELSE <<>>,
      buf |-> IF exists THEN <<>> ELSE <<Header>> ]

\* process_and_download up to the read loop: load the ledger, open the label
\* table (header into the buffer when the file is new)
StartRun ==
    /\ pc = "idle"
    /\ runs < MaxRuns
    /\ runs' = runs + 1
    /\ processed_ids' = GetProcessedIds(ledgerExists, ledger)
    /\ csvExists' = TRUE
    /\ csvDisk' = OpenCsv(csvExists, csvDisk).disk
    /\ csvBuf' = OpenCsv(csvExists, csvDisk).buf
    /\ pc' = "read"
    /\ phase' = "loop"
    /\ i' = 1
    /\ batch' = <<>>
    /\ batchLines' = <<>>
    /\ futures' = <<>>
    /\ cur' = 0
    /\ hist' = NewHist(GetProcessedIds(ledgerExists, ledger), outcome = "done",
                        outcome = "done" /\ hist.failed = {})
    /\ UNCHANGED << crawl, store, ledgerExists, ledger, files, outcome >>

\* one iteration of `for line in f`
ReadLine ==
    /\ pc = "read"
    /\ i <= Len(store)
    /\ LET item == store[i] IN
       IF item.kind = "bad"
       THEN \* json.loads or item["id"] raises; the exception leaves every
            \* with-block and is caught in main
            /\ csvDisk' = ClosedCsv
            /\ csvBuf' = <<>>
            /\ outcome' = "aborted"
            /\ ProcessGone
            /\ UNCHANGED hist
       ELSE IF AlreadyProcessed(item, processed_ids)
       THEN /\ i' = i + 1
            /\ UNCHANGED << csvDisk, csvBuf, outcome, pc, phase, processed_ids,
                            batch, batchLines, futures, cur, hist >>
       ELSE /\ i' = i + 1
            /\ IF Len(batch) + 1 >= batch_size
               THEN /\ futures' = SubmitAll(Append(batch, item), Append(batchLines, i))
                    /\ hist' = [ hist EXCEPT !.submitted = @ \o Append(batchLines, i) ]
                    /\ pc' = "collect"
               ELSE UNCHANGED << futures, hist, pc >>
            /\ batch' = Append(batch, item)
            /\ batchLines' = Append(batchLines, i)
            /\ UNCHANGED << csvDisk, csvBuf, outcome, phase, processed_ids, cur >>
    /\ UNCHANGED << crawl, store, ledgerExists, ledger, csvExists, files, runs >>

\* the read loop has ended: submit the remaining items
EndOfInput ==
    /\ pc = "read"
    /\ i > Len(store)
    /\ futures' = SubmitAll(batch, batchLines)
    /\ hist' = [ hist EXCEPT !.submitted = @ \o batchLines ]
    /\ phase' = "tail"
    /\ pc' = "collect"
    /\ UNCHANGED << crawl, store, disk, csvBuf, i, processed_ids, batch, batchLines, cur,
                    runs, outcome >>

\* the row the result-processing code writes for the task futures[k]
RowFor(k) ==
    LET t == futures[k]
        batch_item == batch[BatchLookup(batch, t.item.id)]
    IN  [ path |-> OutputPath(t.item),
          label |-> Label(batch_item.disease_type),
          id |-> t.item.id ]

\* faulty variant of the success test: every returned result counts
SucceededAny(t) == t.result \in {"ok", "fail"}

\* `if success and image_path`
Succeeded(t) == t.result = "ok"

\* `for future in as_completed(futures)`: take a finished, not yet seen
\* future.  An exception of the task is re-raised by future.result(); a
\* success gets its row through csv_writer.writerow, which leaves the row in
\* the buffer unless this write fills the buffer; a failure only advances the
\* progress bar.
ConsumeResult ==
    /\ pc = "collect"
    /\ \E k \in Unconsumed :
         /\ futures[k].st = "done"
         /\ futures' = [ futures EXCEPT ![k].consumed = TRUE ]
         /\ IF futures[k].result = "exc"
            THEN /\ pc' = "shutdown"
                 /\ cur' = 0
                 /\ hist' = [ hist EXCEPT !.consumed = @ (+) SetToBag({futures[k].line}) ]
                 /\ UNCHANGED << csvDisk, csvBuf >>
            ELSE IF Succeeded(futures[k])
                    /\ BatchLookup(batch, futures[k].item.id) # 0
            THEN /\ pc' = "mark"
                 /\ cur' = k
                 /\ \E flush \in BOOLEAN :
                      IF flush
                      THEN /\ csvDisk' = csvDisk \o Append(csvBuf, RowFor(k))
                           /\ csvBuf' = <<>>
                      ELSE /\ csvBuf' = Append(csvBuf, RowFor(k))
                           /\ csvDisk' = csvDisk
                 /\ hist' = [ hist EXCEPT !.consumed = @ (+) SetToBag({futures[k].line}),
                                          !.rows = Append(@, RowFor(k)),
                                          !.rowLines = Append(@, futures[k].line) ]
            ELSE /\ pc' = "collect"
                 /\ cur' = 0
                 /\ hist' = [ hist EXCEPT !.consumed = @ (+) SetToBag({futures[k].line}) ]
                 /\ UNCHANGED << csvDisk, csvBuf >>
    /\ UNCHANGED << crawl, store, ledgerExists, ledger, csvExists, files, phase, i,
                    processed_ids, batch, batchLines, runs, outcome >>

\* mark_as_processed(entry_id): open for append, write one line, close
MarkProcessed ==
    /\ pc = "mark"
    /\ ledgerExists' = TRUE
    /\ ledger' = Append(ledger, LedgerLine(futures[cur].item.id))
    /\ hist' = [ hist EXCEPT !.marked = Append(@, futures[cur].item.id) ]
    /\ pc' = "collect"
    /\ cur' = 0
    /\ UNCHANGED << crawl, store, csvExists, csvDisk, csvBuf, files, phase, i,
                    processed_ids, batch, batchLines, futures, runs, outcome >>

\* every future of a full batch has been seen: clear batch and futures
BatchDone ==
    /\ pc = "collect"
    /\ phase = "loop"
    /\ Unconsumed = {}
    /\ batch' = <<>>
    /\ batchLines' = <<>>
    /\ futures' = <<>>
    /\ pc' = "read"
    /\ UNCHANGED << crawl, store, disk, csvBuf, phase, i, processed_ids, cur, runs,
                    outcome, hist >>

\* every future of the remainder has been seen: the run ends normally
Finish ==
    /\ pc = "collect"
    /\ phase = "tail"
    /\ Unconsumed = {}
    /\ csvDisk' = ClosedCsv
    /\ csvBuf' = <<>>
    /\ outcome' = "done"
    /\ ProcessGone
    /\ UNCHANGED << crawl, store, ledgerExists, ledger, csvExists, files, runs, hist >>

\* after an exception from future.result(): the executor has waited for its
\* tasks, the label table is closed, main logs the failure
ShutdownDone ==
    /\ pc = "shutdown"
    /\ \A k \in 1..Len(futures) : futures[k].st = "done"
    /\ csvDisk' = ClosedCsv
    /\ csvBuf' = <<>>
    /\ outcome' = "aborted"
    /\ ProcessGone
    /\ UNCHANGED << crawl, store, ledgerExists, ledger, csvExists, files, runs, hist >>

(* ------------------------------ workers ------------------------------- *)
\* a worker takes the task and runs download_image up to the retry loop
TaskStart(k) ==
    /\ futures[k].st = "queued"
    /\ Cardinality({ j \in 1..Len(futures) : Started(futures[j]) }) < MAX_WORKERS
    /\ LET t == futures[k] IN
       IF t.item.kind = "nofield"
       THEN /\ futures' = [ futures EXCEPT ![k] = Returned(t, "exc") ]
            /\ UNCHANGED hist
       ELSE IF files[Basename(t.item.image_path)] # "absent"
       THEN /\ futures' = [ futures EXCEPT ![k] = Returned(t, "ok") ]
            /\ hist' = [ hist EXCEPT !.skipped = @ \cup {t.line} ]
       ELSE /\ futures' = [ futures EXCEPT ![k].st = "try" ]
            /\ UNCHANGED hist
    /\ UNCHANGED << crawl, store, disk, csvBuf, pc, phase, i, processed_ids, batch,
                    batchLines, cur, runs, outcome >>

\* requests.get + raise_for_status, and on success open(output_path, 'wb'),
\* which creates the file or truncates it
Request(k) ==
    /\ futures[k].st = "try"
    /\ LET t == [ futures[k] EXCEPT !.reqs = @ + 1 ] IN
       \E ok \in BOOLEAN :
         IF ok
         THEN /\ futures' = [ futures EXCEPT ![k] = [ t EXCEPT !.st = "writing" ] ]
              /\ files' = [ files EXCEPT ![Basename(t.item.image_path)] = "incomplete" ]
              /\ hist' = [ hist EXCEPT !.requested = @ \cup {t.line} ]
         ELSE /\ futures' = [ futures EXCEPT ![k] = OnFailure(t) ]
              /\ files' = files
              /\ hist' = NoteFailure([ hist EXCEPT !.requested = @ \cup {t.line} ],
                                     OnFailure(t))
    /\ UNCHANGED << crawl, store, ledgerExists, ledger, csvExists, csvDisk, csvBuf, pc,
                    phase, i, processed_ids, batch, batchLines, cur, runs, outcome >>

\* faulty variant of the chunk loop: the worker itself appends the id to the
\* ledger when the file is complete
BodyMarksLedger(k) ==
    /\ futures[k].st = "writing"
    /\ LET t == futures[k]
           f == Basename(t.item.image_path) IN
       \E complete \in BOOLEAN :
         IF complete
         THEN /\ futures' = [ futures EXCEPT ![k] = Returned(t, "ok") ]
              /\ files' = [ files EXCEPT ![f] = "full" ]
              /\ UNCHANGED hist
         ELSE /\ futures' = [ futures EXCEPT ![k] = OnFailure(t) ]
              /\ files' = files
              /\ hist' = NoteFailure(hist, OnFailure(t))
    /\ ledgerExists' = (ledgerExists \/ futures'[k].result = "ok")
    /\ ledger' = IF futures'[k].result = "ok"
                 THEN Append(ledger, LedgerLine(futures[k].item.id)) ELSE ledger
    /\ UNCHANGED << crawl, store, csvExists, csvDisk, csvBuf, pc,
                    phase, i, processed_ids, batch, batchLines, cur, runs, outcome >>

\* the chunk loop: every chunk arrives and the file is complete, or the
\* stream breaks and the file stays as the chunks written so far left it
Body(k) ==
    /\ futures[k].st = "writing"
    /\ LET t == futures[k]
           f == Basename(t.item.image_path) IN
       \E complete \in BOOLEAN :
         IF complete
         THEN /\ futures' = [ futures EXCEPT ![k] = Returned(t, "ok") ]
              /\ files' = [ files EXCEPT ![f] = "full" ]
              /\ UNCHANGED hist
         ELSE /\ futures' = [ futures EXCEPT ![k] = OnFailure(t) ]
              /\ files' = files
              /\ hist' = NoteFailure(hist, OnFailure(t))
    /\ UNCHANGED << crawl, store, ledgerExists, ledger, csvExists, csvDisk, csvBuf, pc,
                    phase, i, processed_ids, batch, batchLines, cur, runs, outcome >>

(* ---------------------------- environment ----------------------------- *)
\* the process is killed: its memory, the label-table buffer included, is lost;
\* the disk stays as the last completed write left it
Kill ==
    /\ pc # "idle"
    /\ csvBuf' = <<>>
    /\ outcome' = "killed"
    /\ ProcessGone
    /\ UNCHANGED << crawl, store, disk, runs, hist >>

Next ==
    \/ StartRun
    \/ ReadLine
    \/ EndOfInput
    \/ ConsumeResult
    \/ MarkProcessed
    \/ BatchDone
    \/ Finish
    \/ ShutdownDone
    \/ Kill
    \/ \E k \in 1..Len(futures) : TaskStart(k)
    \/ \E k \in 1..Len(futures) : Request(k)
    \/ \E k \in 1..Len(futures) : Body(k)

Spec == Init /\ [][Next]_vars

(* ---------------------------- crawl stage ----------------------------- *)
download == << ledgerExists, ledger, csvExists, csvDisk, csvBuf, files, pc, phase,
               i, processed_ids, batch, batchLines, futures, cur, runs, outcome,
               hist >>

\* crawl_data up to the page loop: the page count, and gzip.open(OUTPUT_FILE,
\* 'wt'), which truncates the Record Store
CrawlStart ==
    /\ crawl.pc = "idle"
    /\ crawl.runs < MaxRuns
    /\ crawl' = [ crawl EXCEPT !.pc = "loop", !.page = 1, !.runs = @ + 1,
                                !.ended = FALSE, !.reqs = 0, !.slept = <<>>,
                                !.got = <<>>, !.log = <<>> ]
    /\ store' = <<>>
    /\ UNCHANGED download

\* the next page_num of range(1, total_pages + 1): call fetch_page
CrawlBeginPage ==
    /\ crawl.pc = "loop"
    /\ crawl.page <= TotalPages(crawl.total, crawl.size)
    /\ crawl' = [ crawl EXCEPT !.pc = "fetch", !.attempt = 0,
                                !.retry_delay = initial_retry_delay,
                                !.reqs = 0, !.slept = <<>> ]
    /\ UNCHANGED << store, download >>

\* the page has been left (items written, or the exception caught and
\* `continue`): note it and go to the next page
PageLeft(c, result) ==
    [ c EXCEPT !.pc = "loop", !.page = @ + 1, !.attempt = 0,
               !.retry_delay = initial_retry_delay,
               !.log = Append(@, [ page |-> c.page, reqs |-> c.reqs,
                                   slept |-> c.slept, result |-> result ]) ]

\* faulty variant of the except branch of fetch_page: one retry too many
FetchFailedOnceMore(c) ==
    IF c.attempt < max_retries
    THEN [ c EXCEPT !.attempt = @ + 1, !.slept = Append(@, c.retry_delay),
                    !.retry_delay = @ * 2 ]
    ELSE [ c EXCEPT !.pc = "raised" ]

\* the except branch of fetch_page: back off and retry, or log and re-raise
\* after the last attempt
FetchFailed(c) ==
    IF c.attempt < max_retries - 1
    THEN [ c EXCEPT !.attempt = @ + 1, !.slept = Append(@, c.retry_delay),
                    !.retry_delay = @ * 2 ]
    ELSE [ c EXCEPT !.pc = "raised" ]

\* faulty variant of the except branch of crawl_data: the crawl stops at the
\* page that raised
CrawlOnErrorStop(c, result) == [ PageLeft(c, result) EXCEPT !.pc = "idle" ]

\* `except Exception` in crawl_data: log the page, continue with the next one
CrawlOnError(c, result) == PageLeft(c, result)

\* faulty variant of the page write: the first item of the page is left out
WrittenLinesSkipFirst(items) == IF items = <<>> THEN <<>> ELSE Tail(PageLines(items))

\* the lines the item loop of crawl_data writes for a page
WrittenLines(items) == PageLines(items)

\* one requests.get of fetch_page and what follows it: the response arrives
\* with its items ("ok"), arrives without an `items` key ("noitems", the
\* KeyError is caught in crawl_data), or the request fails ("fail")
CrawlRequest ==
    /\ crawl.pc = "fetch"
    /\ LET c == [ crawl EXCEPT !.reqs = @ + 1 ]
           items == PageItems(c.page, c.total, c.size) IN
       \E response \in {"ok", "noitems", "fail"} :
         IF response = "ok"
         THEN /\ store' = store \o WrittenLines(items)
              /\ crawl' = PageLeft([ c EXCEPT !.got = Append(@, [ page |-> c.page,
                                                                  items |-> items ]) ],
                                   "written")
         ELSE IF response = "noitems"
         THEN /\ store' = store
              /\ crawl' = CrawlOnError(c, "noitems")
         ELSE /\ store' = store
              /\ crawl' = IF FetchFailed(c).pc = "raised"
                          THEN CrawlOnError(c, "failed")
                          ELSE FetchFailed(c)
    /\ UNCHANGED download

\* the page loop is over: the Record Store is closed, main logs the end
CrawlFinish ==
    /\ crawl.pc = "loop"
    /\ crawl.page > TotalPages(crawl.total, crawl.size)
    /\ crawl' = [ crawl EXCEPT !.pc = "idle", !.ended = TRUE ]
    /\ UNCHANGED << store, download >>

NextCrawl ==
    \/ CrawlStart
    \/ CrawlBeginPage
    \/ CrawlRequest
    \/ CrawlFinish

\* the crawl over every bounded configuration (total item count, page size)
\* and an empty or a non-empty Record Store left by an earlier crawl
InitCrawl ==
    /\ \E total \in 0..MaxItems, size \in 1..MaxPageSize :
          crawl = CrawlNew(total, size)
    /\ store \in { <<>>, << Item(1) >> }
    /\ ledgerExists = FALSE
    /\ ledger = <<>>
    /\ csvExists = FALSE
    /\ csvDisk = <<>>
    /\ csvBuf = <<>>
    /\ files = [ b \in Basenames |-> "absent" ]
    /\ pc = "idle"
    /\ phase = "loop"
    /\ i = 1
    /\ processed_ids = {}
    /\ batch = <<>>
    /\ batchLines = <<>>
    /\ futures = <<>>
    /\ cur = 0
    /\ runs = 0
    /\ outcome = "none"
    /\ hist = NewHist({}, FALSE, FALSE)

SpecCrawl == InitCrawl /\ [][NextCrawl]_vars

\* the page loop is sequential and every request returns or times out
\* (timeout=30), so a crawl that can take a step takes it
SpecCrawlFair == SpecCrawl /\ WF_vars(NextCrawl)

\* the same program over Record Stores whose lines have pairwise distinct ids
DistinctIds(st) ==
    \A p, q \in 1..Len(st) : p # q => st[p].id # st[q].id

InitDistinctIds == Init /\ DistinctIds(store)

SpecDistinctIds == InitDistinctIds /\ [][Next]_vars

\* the same program over Record Stores of well-formed lines with pairwise
\* distinct ids
InitWellFormedDistinct ==
    Init /\ DistinctIds(store) /\ \A k \in 1..Len(store) : store[k].kind = "ok"

SpecWellFormedDistinct == InitWellFormedDistinct /\ [][Next]_vars

\* the same program over Record Stores of well-formed lines only
InitWellFormed == Init /\ \A k \in 1..Len(store) : store[k].kind = "ok"

SpecWellFormed == InitWellFormed /\ [][Next]_vars

TypeOK ==
    /\ pc \in {"idle", "read", "collect", "mark", "shutdown"}
    /\ runs \in 0..MaxRuns

(* ------------------------- derived notions ---------------------------- *)
\* ids of the rows and ledger lines written by the current run
RowIds == { hist.rows[k].id : k \in 1..Len(hist.rows) }
MarkedIds == { hist.marked[k] : k \in 1..Len(hist.marked) }

\* the run has ended by itself (normally or through an exception), not by a kill
RunEnded == pc = "idle" /\ outcome \in {"done", "aborted"}

\* every id of the store reads back from the ledger as it was written
TrimmedIds == \A k \in 1..Len(store) : store[k].kind = "ok" => Strip(store[k].id) = store[k].id

WellFormed(item) == item.kind = "ok"

(* ------------------------------ claims -------------------------------- *)

\* C1: the ledger is never a premature marker: at every point, every id in
\* the ledger file has its label row in the label table on disk.
C1_LedgerNeverPremature ==
    \A k \in 1..Len(ledger) :
        \E r \in 1..Len(csvDisk) : LedgerLine(csvDisk[r].id) = ledger[k]

\* C2: across runs over the same store, killed runs included, the label table
\* on disk never holds two rows for the same catalog entry.
C2_AtMostOneRowPerEntry ==
    \A r1, r2 \in 1..Len(csvDisk) : r1 # r2 => csvDisk[r1].id # csvDisk[r2].id

\* C3: within one run an id that is on several lines of the store is one unit
\* of work: one task is dispatched for it, at most one row and one ledger line
\* are written for it.
C3_DuplicateIdOneUnit ==
    /\ \A p, q \in 1..Len(hist.submitted) :
          p # q => store[hist.submitted[p]].id # store[hist.submitted[q]].id
    /\ \A p, q \in 1..Len(hist.rows) : p # q => hist.rows[p].id # hist.rows[q].id
    /\ \A p, q \in 1..Len(hist.marked) : p # q => hist.marked[p] # hist.marked[q]

C5_ResumeOnlyUnprocessed ==
    /\ \A k \in 1..Len(hist.submitted) : store[hist.submitted[k]].id \notin hist.loaded
    /\ \A l \in hist.requested : store[l].id \notin hist.loaded
    /\ RowIds \cap hist.loaded = {}
    /\ MarkedIds \cap hist.loaded = {}
    /\ (~ledgerExists => hist.loaded = {})

C5_Witness ==
    /\ RunEnded
    /\ outcome = "done"
    /\ \E k, j \in 1..Len(store) :
          /\ WellFormed(store[k])
          /\ store[k].id \in hist.loaded
          /\ store[j].id \notin hist.loaded
          /\ j \in hist.requested
          /\ store[j].id \in RowIds
          /\ store[j].id \in MarkedIds

\* C6: a download attempt that fails never leaves a zero-byte or truncated
\* file at the destination path.
C6_FailedAttemptLeavesNoPartialFile ==
    [][ \A k \in 1..Len(futures) :
           ( /\ k <= Len(futures')
             /\ futures[k].st \in {"try", "writing"}
             /\ futures'[k].st = "try" \/ futures'[k].result = "fail" )
           => files'[Basename(futures[k].item.image_path)] # "incomplete" ]_vars

\* C7: an entry not in the ledger whose destination file exists is reported
\* as a success without a network request, and it gets its label row and its
\* ledger line in that run.
C7_SkipIfExists ==
    /\ hist.skipped \cap hist.requested = {}
    /\ RunEnded =>
          \A l \in hist.skipped : store[l].id \in RowIds /\ store[l].id \in MarkedIds

\* C8: an entry whose download fails on its final attempt gets no label row
\* and no ledger line in that run, so it stays out of the ledger.
C8_FailedEntryNotRecorded ==
    \A id \in hist.failed :
        /\ id \notin RowIds
        /\ id \notin MarkedIds
        /\ \A k \in 1..Len(ledger) : ledger[k] # LedgerLine(id)

\* C9: download_image returns a failure only after exactly 3 requests with
\* waits of 2 then 4 between them and none after the last; it returns a
\* success after k <= 3 requests and the first k - 1 of these waits; and the
\* main thread goes on collecting after it has seen a failed result.
C9_RetryBound ==
    [][ \A k \in 1..Len(futures) :
           /\ ( /\ k <= Len(futures')
                /\ futures[k].st \in {"try", "writing"}
                /\ futures'[k].st = "done" )
              => LET t == futures[k]
                     n == IF t.st = "try" THEN t.reqs + 1 ELSE t.reqs
                 IN  /\ futures'[k].result = "fail" => (n = 3 /\ t.slept = <<2, 4>>)
                     /\ futures'[k].result = "ok" =>
                           (n \in 1..3 /\ t.slept = SubSeq(<<2, 4>>, 1, n - 1))
           /\ ( /\ k <= Len(futures')
                /\ futures[k].result = "fail"
                /\ ~futures[k].consumed
                /\ futures'[k].consumed )
              => (pc' = "collect" /\ Len(futures') = Len(futures)) ]_vars

C9_Witness ==
    /\ pc = "collect"
    /\ \E k, j \in 1..Len(futures) :
          /\ futures[k].result = "fail"
          /\ futures[k].consumed
          /\ futures[j].result = "ok"
          /\ futures[j].consumed
          /\ futures[j].line \in hist.requested
          /\ futures[j].item.id \in MarkedIds

\* C10: a malformed line fails only that record: when the run has ended,
\* every well-formed entry of the store that the loaded ledger does not
\* hold has been dispatched.
C10_MalformedContained ==
    RunEnded =>
       \A l \in 1..Len(store) :
          (WellFormed(store[l]) /\ store[l].id \notin hist.loaded)
             => \E k \in 1..Len(hist.submitted) : hist.submitted[k] = l

(* ---------------------- crawl stage: derived notions ------------------ *)
\* the crawl run has left crawl_data normally
CrawlEnded == crawl.pc = "idle" /\ crawl.ended

LoggedPages == [ k \in 1..Len(crawl.log) |-> crawl.log[k].page ]

\* ceil(total / size), defined by its property
CeilDiv(total, size) ==
    CHOOSE n \in 0..total :
        /\ n * size >= total
        /\ \A m \in 0..total : m * size >= total => n <= m

\* the lines of the pages received, in the order they were received
RECURSIVE GotLines(_)
GotLines(got) ==
    IF got = <<>> THEN <<>>
    ELSE GotLines(SubSeq(got, 1, Len(got) - 1)) \o PageLines(got[Len(got)].items)

\* C11: a crawl that is running ends with every page from 1 to the last one
\* attempted, whatever pages failed, and with the items of every page it
\* received written to the Record Store.
C11_PartialPageTolerance ==
    (crawl.pc # "idle") ~>
        ( /\ CrawlEnded
          /\ LoggedPages = [ k \in 1..TotalPages(crawl.total, crawl.size) |-> k ]
          /\ \A g \in 1..Len(crawl.got) :
                \A k \in 1..Len(crawl.got[g].items) :
                   \E l \in 1..Len(store) : store[l] = crawl.got[g].items[k] )

C11_Witness ==
    /\ CrawlEnded
    /\ \E j, k \in 1..Len(crawl.log) :
          /\ j < k
          /\ crawl.log[j].result = "failed"
          /\ crawl.log[k].result = "written"
          /\ \E l \in 1..Len(store) : store[l].id = << (crawl.log[k].page - 1) * crawl.size + 1 >>

\* C12: a page whose every request fails is requested exactly 3 times with
\* waits of 2 then 4, and is then handed to the crawl loop as failed; a page
\* whose request k <= 3 succeeds is requested exactly k times; no page is
\* fetched twice in a run.
C12_PageRetryBound ==
    /\ \A k \in 1..Len(crawl.log) :
          LET e == crawl.log[k] IN
          /\ e.result = "failed" => (e.reqs = 3 /\ e.slept = <<2, 4>>)
          /\ e.result # "failed" =>
                (e.reqs \in 1..3 /\ e.slept = SubSeq(<<2, 4>>, 1, e.reqs - 1))
          /\ \A j \in 1..Len(crawl.log) : j # k => crawl.log[j].page # e.page
    /\ crawl.pc = "fetch" =>
          /\ crawl.reqs < 3
          /\ \A k \in 1..Len(crawl.log) : crawl.log[k].page # crawl.page

C12_Witness ==
    /\ CrawlEnded
    /\ \E j, k \in 1..Len(crawl.log) :
          /\ crawl.log[j].result = "failed"
          /\ crawl.log[k].result = "written"
          /\ crawl.log[k].reqs = 2

\* C17: the number of pages is ceil(T / P); the crawl requests the pages
\* 1..ceil(T / P), each in turn, no page 0 and none beyond the last; 477
\* pages for T = 47663, P = 100.
C17_PageMath ==
    /\ TotalPages(crawl.total, crawl.size) = CeilDiv(crawl.total, crawl.size)
    /\ TotalPages(47663, 100) = 477
    /\ crawl.pc = "fetch" => crawl.page \in 1..CeilDiv(crawl.total, crawl.size)
    /\ \A k \in 1..Len(crawl.log) : crawl.log[k].page = k
    /\ Len(crawl.log) <= CeilDiv(crawl.total, crawl.size)
    /\ CrawlEnded => Len(crawl.log) = CeilDiv(crawl.total, crawl.size)

C17_Witness ==
    /\ CrawlEnded
    /\ crawl.total % crawl.size # 0
    /\ crawl.total > crawl.size
    /\ Len(crawl.log) = (crawl.total \div crawl.size) + 1

\* C18: a crawl run starts from an empty Record Store, and from then on the
\* store is the concatenation, in page order, of the items of the pages
\* received in this run, each once; failed pages contribute no line.
C18_StoreContent ==
    crawl.runs > 0 =>
       /\ store = GotLines(crawl.got)
       /\ \A j, k \in 1..Len(crawl.got) : j < k => crawl.got[j].page < crawl.got[k].page
       /\ \A k \in 1..Len(crawl.log) :
             (crawl.log[k].result = "written")
                <=> (\E g \in 1..Len(crawl.got) : crawl.got[g].page = crawl.log[k].page)
       /\ crawl.pc \in {"idle", "loop", "fetch"}

C18_Witness ==
    /\ CrawlEnded
    /\ crawl.runs > 1
    /\ Len(crawl.got) > 1
    /\ Len(store) > 1
    /\ \E k \in 1..Len(crawl.log) : crawl.log[k].result = "failed"

(* -------------------- download stage: further claims ------------------ *)
\* the lines of the label table, on disk and in the buffer
CsvLines == csvDisk \o csvBuf

\* a step of a download worker: the state of some task changes
WorkerStep ==
    /\ Len(futures') = Len(futures)
    /\ \E k \in 1..Len(futures) : futures'[k].st # futures[k].st

\* C13: appends to the label table and to the ledger are serialized: no step
\* of a download worker touches either file, and every other step appends at
\* most one line to each, made by the result-processing loop.
C13_AppendsSerialized ==
    [][ /\ WorkerStep =>
             (ledger' = ledger /\ csvDisk' = csvDisk /\ csvBuf' = csvBuf)
        /\ ledger' # ledger =>
             (pc = "mark" /\ ledger' = Append(ledger, LedgerLine(futures[cur].item.id)))
        /\ (pc' # "idle" /\ CsvLines' # CsvLines) =>
             (pc \in {"idle", "collect"} /\ Len(CsvLines') = Len(CsvLines) + 1) ]_vars

C13_Witness ==
    /\ pc = "mark"
    /\ \E k \in 1..Len(futures) : futures[k].st = "writing"
    /\ Len(ledger) > 0
    /\ Len(CsvLines) > 2

\* C14: whenever a label row is appended, the file it references exists on
\* disk, and no row is written before its download task has reported success
\* with the file present at the destination path.
C14_RowOnlyAfterFilePresent ==
    /\ \A k \in 1..Len(hist.rows) : files[hist.rows[k].path[2]] # "absent"
    /\ pc = "mark" =>
         /\ futures[cur].st = "done"
         /\ futures[cur].result = "ok"
         /\ hist.rows[Len(hist.rows)].path = OutputPath(futures[cur].item)
         /\ files[Basename(futures[cur].item.image_path)] # "absent"

C14_Witness ==
    /\ pc = "mark"
    /\ futures[cur].line \in hist.requested
    /\ files[Basename(futures[cur].item.image_path)] = "full"

IsPrefix(a, b) == Len(a) <= Len(b) /\ \A k \in 1..Len(a) : a[k] = b[k]

\* C15: the ledger and the label table only grow: across every step, also the
\* end of a run by completion, exception or kill and the start of the next
\* run, the content of each file before the step is a prefix of its content
\* after it and neither file disappears; the header row is written only when
\* the label table did not exist.
C15_FilesOnlyGrow ==
    [][ /\ IsPrefix(ledger, ledger')
        /\ IsPrefix(csvDisk, csvDisk')
        /\ ledgerExists => ledgerExists'
        /\ csvExists => csvExists'
        /\ (Len(CsvLines') > Len(CsvLines) /\ CsvLines'[Len(CsvLines')] = Header)
             => (~csvExists /\ pc = "idle") ]_vars

C15_Witness ==
    /\ runs = 2
    /\ pc = "mark"
    /\ hist.loaded # {}
    /\ Len(csvDisk) >= 2
    /\ csvDisk[1] = Header
    /\ \A k \in 2..Len(csvDisk) : csvDisk[k] # Header

\* C16: the label row of a downloaded entry is (OUTPUT_DIR joined with the
\* basename of the entry's image_path, "True" if the entry's own disease_type
\* is in the positive set, else "False"): the label is never taken from
\* another entry of the batch.
C16_LabelFromOwnEntry ==
    \A k \in 1..Len(hist.rows) :
        LET entry == store[hist.rowLines[k]] IN
        /\ hist.rows[k].path = <<OUTPUT_DIR, entry.image_path[2]>>
        /\ hist.rows[k].label =
             IF entry.disease_type \in CANCEROUS_TYPES THEN "True" ELSE "False"

\* how often x occurs in the sequence s
Count(s, x) == Cardinality({ k \in 1..Len(s) : s[k] = x })

\* C19: for a Record Store with pairwise distinct ids, every entry whose id
\* is not in the startup ledger is submitted exactly once and its result is
\* consumed exactly once in the run, whatever the number of such entries, and
\* no task of a later batch is submitted before all results of the current
\* batch are processed.
C19_BatchingExactlyOnce ==
    /\ \A n \in 1..Len(store) :
         /\ Count(hist.submitted, n) <= 1
         /\ CopiesIn(n, hist.consumed) <= Count(hist.submitted, n)
         /\ Count(hist.submitted, n) = 1 => store[n].id \notin hist.loaded
    /\ Len(futures) <= batch_size
    /\ \A k \in 1..Len(hist.submitted) :
         \/ CopiesIn(hist.submitted[k], hist.consumed) = 1
         \/ /\ k > Len(hist.submitted) - Len(futures)
            /\ futures[k - (Len(hist.submitted) - Len(futures))].line = hist.submitted[k]
            /\ ~futures[k - (Len(hist.submitted) - Len(futures))].consumed
         \/ pc = "idle"
    /\ RunEnded =>
         \A n \in 1..Len(store) :
             (store[n].kind # "bad" /\ store[n].id \notin hist.loaded) =>
                 Count(hist.submitted, n) = 1 /\ CopiesIn(n, hist.consumed) = 1

\* C20: no two download tasks that run concurrently write to the same
\* destination file: at no time do two workers have the same output path
\* open for writing, also for two entries of one batch whose image_paths
\* share a basename.
C20_NoTwoWritersOfOneFile ==
    \A j, k \in 1..Len(futures) :
        (j # k /\ futures[j].st = "writing" /\ futures[k].st = "writing")
            => OutputPath(futures[j].item) # OutputPath(futures[k].item)

====
